---- MODULE Spec2Model ----
(***************************************************************************)
(* Model of the Odisha Krishi AI repository (suman0309/sih-2):             *)
(*   - setup.bat / setup.ps1, run side by side against one environment     *)
(*     (SetupSpec);                                                        *)
(*   - the Dashboard component of frontend/src/components/Dashboard.jsx    *)
(*     with its deferred placeholder assignment and language selector      *)
(*     (DashSpec, DashFairSpec);                                           *)
(*   - the InstancedCrops component of the 3D scene (CropsSpec).           *)
(* Each specification moves its own variables and leaves the others at     *)
(* their idle values.                                                      *)
(***************************************************************************)
EXTENDS Integers, Sequences, FiniteSets, TLC

VARIABLES
    \* ---- setup scripts
    pc,          \* index (1..NSteps+1) of the next source command
    env,         \* outcome of every command run so far: step index -> outcome
    bat,         \* setup.bat:  [running, errorlevel, exit, trace, msgs]
    ps,          \* setup.ps1:  [running, lastExit,   exit, trace, msgs]
    \* ---- Dashboard
    mounted,           \* a Dashboard instance is mounted
    mountId,           \* number of mounts so far; identifies the current instance
    timers,            \* pending setTimeout callbacks, by owning mount
    predictions,       \* useState(null): <<>> is null, <<rec>> is the record
    selectedLanguage,  \* useState('en')
    charts,            \* memoised chart data of YieldPredictionCard (<<>> = none)
    setCalls,          \* setPredictions calls received by the current instance
    lateSets,          \* setPredictions calls run after their instance unmounted
    lastChosen,        \* e.target.value of the last change event
    lastArg,           \* argument of the last onLanguageChange call
    langEvents,        \* change events so far
    renders,           \* parent-driven re-renders so far
    \* ---- InstancedCrops
    seedrandomPresent, \* Math.seedrandom is defined in the page
    seedState,         \* first state of the generator seeded with 'krishi'
    randomState,       \* state of the global Math.random generator
    cropsStatus,       \* "unmounted" | "mounted" | "crashed"
    count,             \* prop count
    predictionScore,   \* prop predictionScore, numerator over ScoreRes
    seeds,             \* useMemo value: sequence of [x, z, h, r]
    meshCount,         \* instance count of the instancedMesh (-1 = no mesh)
    matrices,          \* instance matrices written by the last frame
    frameScore,        \* predictionScore read by the last frame
    frames             \* frames rendered so far (the frame clock)

setupVars == <<pc, env, bat, ps>>
dashVars  == <<mounted, mountId, timers, predictions, selectedLanguage, charts,
               setCalls, lateSets, lastChosen, lastArg, langEvents, renders>>
cropsVars == <<seedrandomPresent, seedState, randomState, cropsStatus, count,
               predictionScore, seeds, meshCount, matrices, frameScore, frames>>
vars == <<setupVars, dashVars, cropsVars>>

(***************************************************************************)
(*                          SETUP SCRIPTS                                  *)
(***************************************************************************)

\* The commands of both scripts, in source order.  The two scripts have the
\* same command sequence; step k of one is step k of the other.
StepOrder ==
    << "python --version", "node --version",
       "cd frontend", "npm install",
       "cd backend", "venv backend", "activate backend", "pip install backend",
       "cd ml-service", "venv ml-service", "activate ml-service",
       "pip install ml-service",
       "success message" >>

NSteps == Len(StepOrder)

PrereqSteps  == {1, 2}          \* python --version, node --version
InstallSteps == {4, 8, 12}      \* npm install, pip install (backend, ml-service)
CheckedSteps == PrereqSteps \cup InstallSteps
CdSteps      == {3, 5, 9}
VenvSteps    == {6, 10}
ActivateSteps == {7, 11}
FinishStep   == 13

\* What a command can do when the shell runs it:
\*   "ok"       it runs and exits 0
\*   "fail"     it runs and exits nonzero
\*   "notfound" the shell cannot find the executable at all
\* python is known to exist when a venv step is reached (step 1 would have
\* stopped both scripts on "notfound"); cd and activation succeed or fail.
Outcomes(k) ==
    IF k \in CheckedSteps THEN {"ok", "fail", "notfound"}
    ELSE IF k = FinishStep THEN {"ok"}
    ELSE {"ok", "fail"}

\* cmd.exe: %errorlevel% after an external command.  A missing executable
\* gives 9009, a failing one its nonzero exit code (1 stands for any).
BatErrorlevel(o) ==
    CASE o = "ok" -> 0
      [] o = "fail" -> 1
      [] o = "notfound" -> 9009

BatFailMessage(k) ==
    CASE k = 1 -> "Python is not installed"
      [] k = 2 -> "Node.js is not installed"
      [] k = 4 -> "Failed to install frontend dependencies"
      [] k = 8 -> "Failed to install backend dependencies"
      [] k = 12 -> "Failed to install ML service dependencies"

\* setup.bat: `if %errorlevel% neq 0 ( echo ... & pause & exit /b 1 )`
BatCheck(b, k) ==
    IF b.errorlevel # 0
    THEN [b EXCEPT !.running = FALSE, !.exit = 1,
                   !.msgs = Append(@, BatFailMessage(k))]
    ELSE b

\* setup.bat, command k with outcome o.
BatStep(b, k, o) ==
    IF ~b.running THEN b
    ELSE LET ran == [b EXCEPT !.trace = Append(@, StepOrder[k])] IN
         IF k \in CheckedSteps
         THEN BatCheck([ran EXCEPT !.errorlevel = BatErrorlevel(o)], k)
         ELSE IF k \in CdSteps
         THEN \* cd sets errorlevel only when it fails; nothing tests it
              [ran EXCEPT !.errorlevel = IF o = "ok" THEN @ ELSE 1]
         ELSE IF k \in VenvSteps \cup ActivateSteps
         THEN \* python -m venv venv / call venv\Scripts\activate: no test
              [ran EXCEPT !.errorlevel = BatErrorlevel(o)]
         ELSE \* echo Setup completed successfully! ... pause, end of file:
              \* the script returns the current errorlevel
              [ran EXCEPT !.running = FALSE, !.exit = ran.errorlevel,
                          !.msgs = Append(@, "Setup completed successfully!")]

PsFailMessage(k) == BatFailMessage(k)

\* setup.ps1: `if ($LASTEXITCODE -ne 0) { Write-Host ...; exit 1 }`
PsCheck(p, k) ==
    IF p.lastExit # 0
    THEN [p EXCEPT !.running = FALSE, !.exit = 1,
                   !.msgs = Append(@, PsFailMessage(k))]
    ELSE p

\* PowerShell: a native command that runs sets $LASTEXITCODE to its exit
\* code; one that cannot be found raises CommandNotFoundException and
\* leaves $LASTEXITCODE as it was.
PsNative(p, o) ==
    IF o = "notfound" THEN p
    ELSE [p EXCEPT !.lastExit = IF o = "ok" THEN 0 ELSE 1]

\* setup.ps1: try { $v = <cmd> --version 2>&1; Write-Host "... found" }
\*            catch { Write-Host "... not installed"; exit 1 }
\* Only an exception reaches the catch block: a command that runs and
\* exits nonzero raises none.
PsTryVersion(p, k, o) ==
    IF o = "notfound"
    THEN [p EXCEPT !.running = FALSE, !.exit = 1,
                   !.msgs = Append(@, PsFailMessage(k))]
    ELSE [PsNative(p, o) EXCEPT
              !.msgs = Append(@, IF k = 1 THEN "Python found" ELSE "Node.js found")]

\* setup.ps1, command k with outcome o.
PsStep(p, k, o) ==
    IF ~p.running THEN p
    ELSE LET ran == [p EXCEPT !.trace = Append(@, StepOrder[k])] IN
         IF k \in PrereqSteps THEN PsTryVersion(ran, k, o)
         ELSE IF k \in InstallSteps THEN PsCheck(PsNative(ran, o), k)
         ELSE IF k \in CdSteps THEN ran          \* Set-Location: a cmdlet
         ELSE IF k \in VenvSteps THEN PsNative(ran, o)
         ELSE IF k \in ActivateSteps THEN ran    \* & .\venv\Scripts\Activate.ps1
         ELSE \* success message, Read-Host, end of file: exit status 0
              [ran EXCEPT !.running = FALSE, !.exit = 0,
                          !.msgs = Append(@, "Setup completed successfully!")]

\* Both scripts meet command k of the same environment.
RunStep(k) ==
    /\ pc = k
    /\ bat.running \/ ps.running
    /\ \E o \in Outcomes(k) :
         /\ env' = [j \in DOMAIN env \cup {k} |-> IF j = k THEN o ELSE env[j]]
         /\ bat' = BatStep(bat, k, o)
         /\ ps' = PsStep(ps, k, o)
    /\ pc' = k + 1
    /\ UNCHANGED <<dashVars, cropsVars>>

PythonVersion   == RunStep(1)
NodeVersion     == RunStep(2)
CdFrontend      == RunStep(3)
NpmInstall      == RunStep(4)
CdBackend       == RunStep(5)
VenvBackend     == RunStep(6)
ActivateBackend == RunStep(7)
PipBackend      == RunStep(8)
CdMlService     == RunStep(9)
VenvMlService   == RunStep(10)
ActivateMlService == RunStep(11)
PipMlService    == RunStep(12)
SuccessMessage  == RunStep(13)

\* Idle values of the variables of each part.
SetupIdle ==
    /\ pc = 1
    /\ env = <<>>
    /\ bat = [running |-> TRUE, errorlevel |-> 0, exit |-> -1,
              trace |-> <<>>, msgs |-> <<>>]
    /\ ps  = [running |-> TRUE, lastExit |-> -1, exit |-> -1,
              trace |-> <<>>, msgs |-> <<>>]

DashIdle ==
    /\ mounted = FALSE
    /\ mountId = 0
    /\ timers = {}
    /\ predictions = <<>>
    /\ selectedLanguage = "en"
    /\ charts = <<>>
    /\ setCalls = 0
    /\ lateSets = 0
    /\ lastChosen = "en"
    /\ lastArg = "en"
    /\ langEvents = 0
    /\ renders = 0

CropsIdle ==
    /\ seedrandomPresent = TRUE
    /\ seedState = 0
    /\ randomState = 0
    /\ cropsStatus = "unmounted"
    /\ count = 0
    /\ predictionScore = 0
    /\ seeds = <<>>
    /\ meshCount = -1
    /\ matrices = <<>>
    /\ frameScore = 0
    /\ frames = 0

SetupInit == SetupIdle /\ DashIdle /\ CropsIdle

SetupNext ==
    \/ PythonVersion
    \/ NodeVersion
    \/ CdFrontend
    \/ NpmInstall
    \/ CdBackend
    \/ VenvBackend
    \/ ActivateBackend
    \/ PipBackend
    \/ CdMlService
    \/ VenvMlService
    \/ ActivateMlService
    \/ PipMlService
    \/ SuccessMessage

SetupSpec == SetupInit /\ [][SetupNext]_vars

(***************************************************************************)
(*                     SETUP SCRIPTS: CLAIMS                               *)
(***************************************************************************)

Executed(s, k) == k <= Len(s.trace)
Terminated(s) == s.exit # -1
InSourceOrder(s) == s.trace = SubSeq(StepOrder, 1, Len(s.trace))

\* A checked command that reported failure is the last thing the script ran,
\* and the script has ended with a nonzero status.
AbortsAtFirstFailure(s) ==
    \A k \in CheckedSteps :
        (Executed(s, k) /\ env[k] # "ok")
            => /\ ~s.running
               /\ Terminated(s) /\ s.exit # 0
               /\ Len(s.trace) = k

\* C3: in both setup scripts the commands run in source order, and as soon as
\* a prerequisite check (python, node) or an install command (npm install,
\* either pip install) reports failure the script ends with a nonzero status
\* and runs no later step.
C3_AbortAtFirstFailure ==
    /\ InSourceOrder(bat) /\ AbortsAtFirstFailure(bat)
    /\ InSourceOrder(ps) /\ AbortsAtFirstFailure(ps)

SomeCheckFailed(s) ==
    \E k \in CheckedSteps : Executed(s, k) /\ env[k] # "ok"

PrintedSuccess(s) ==
    \E i \in DOMAIN s.msgs : s.msgs[i] = "Setup completed successfully!"

ExitStatusContract(s) ==
    /\ Terminated(s) =>
          /\ s.exit \in {0, 1}
          /\ (s.exit = 1) <=> SomeCheckFailed(s)
    /\ PrintedSuccess(s) =>
          \A k \in CheckedSteps : k \in DOMAIN env /\ env[k] = "ok"

\* C4: for every combination of outcomes a setup script's exit status is 1 iff
\* some prerequisite is missing or some install step failed, and 0 otherwise;
\* the success message is printed only when both prerequisite checks and all
\* three install steps succeeded.
C4_ExitStatus ==
    /\ ExitStatusContract(bat)
    /\ ExitStatusContract(ps)

\* C10: against the same outcomes, setup.bat and setup.ps1 execute the same
\* sequence of steps, stop at the same step and end with the same exit status.
C10_ScriptsEquivalent ==
    /\ bat.trace = ps.trace
    /\ bat.running = ps.running
    /\ bat.exit = ps.exit

(***************************************************************************)
(*                              DASHBOARD                                  *)
(***************************************************************************)

MaxMounts == 2       \* mounts of Dashboard explored
MaxLangEvents == 3   \* change events per mounted instance explored
MaxRenders == 2      \* parent-driven re-renders explored
MaxSets == 2         \* cap on counted setPredictions calls per instance

\* The <option> values of the language selector.
Languages == {"en", "hi", "or"}

\* useState(null)
Null == <<>>

\* Numbers of the chart arrays are kept in hundredths (3.31 is 331).
PlaceholderPredictions ==
    [ trend      |-> <<320, 331, 335, 341, 346, 350, 358>>,
      confidence |-> <<84, 76, 72, 80>>,
      risks      |-> <<5500, 4200, 6800, 3500, 4500, 5100>> ]

FallbackTrend      == <<320, 330, 335, 340, 342, 345, 350>>
FallbackConfidence == <<82, 76, 71, 79>>
FallbackRisks      == <<6000, 4000, 7000, 3500, 4500, 5000>>

\* Array.from({ length: 7 }).map((_, i) => `Day ${i + 1}`), by day number
DayLabels   == [i \in 1..7 |-> i]
CropLabels  == <<"Rice", "Wheat", "Maize", "Sugarcane">>
RiskLabels  == <<"Rainfall", "Temperature", "Soil Moisture", "N", "P", "K">>

\* predictions?.field : undefined when predictions is null
OptionalField(p, f) ==
    IF p = Null THEN [defined |-> FALSE, value |-> <<>>]
    ELSE [defined |-> TRUE, value |-> p[1][f]]

\* a && b on the same operands: the fallback whenever the field is there
OrElseAsAnd(v, fallback) == IF v.defined THEN fallback ELSE v.value

\* a || b : undefined is falsy, an array (even an empty one) is truthy
OrElse(v, fallback) == IF v.defined THEN v.value ELSE fallback

\* The three useMemo bodies of YieldPredictionCard.
ChartData(p) ==
    [ line  |-> [labels |-> DayLabels,
                 data |-> OrElse(OptionalField(p, "trend"), FallbackTrend)],
      bar   |-> [labels |-> CropLabels,
                 data |-> OrElse(OptionalField(p, "confidence"), FallbackConfidence)],
      radar |-> [labels |-> RiskLabels,
                 data |-> OrElse(OptionalField(p, "risks"), FallbackRisks)] ]

\* useMemo(..., [predictions]): recomputed on the first render and whenever
\* predictions changed, otherwise the memoised value is kept.
Memo(prevCharts, prevPred, nextPred) ==
    IF prevCharts = <<>> \/ prevPred # nextPred
    THEN <<ChartData(nextPred)>>
    ELSE prevCharts

\* setTimeout(cb, 400) by the instance `owner`; one timer per effect run
SetTimeout(tm, owner) == tm \cup {owner}

\* an effect cleanup that forgets the timer
ClearTimeoutForgotten(tm, owner) == tm

\* clearTimeout(timer): the pending callback of `owner` is dropped
ClearTimeout(tm, owner) == tm \ {owner}

\* an effect with no dependency array runs again after every render
EffectDepsOmitted == TRUE

\* useEffect(..., []): the dependencies never change after the mount
EffectDepsChanged == FALSE

\* After a re-render React runs the cleanup and the effect again only when
\* the dependencies changed.
EffectsAfterRender(tm) ==
    IF EffectDepsChanged
    THEN SetTimeout(ClearTimeout(tm, mountId), mountId)
    ELSE tm

\* the handler passing the value the select still shows
OnChangeArgStale(currentLang, targetValue) == currentLang

\* onChange={(e) => onLanguageChange(e.target.value)}
OnChangeArg(currentLang, targetValue) == targetValue

\* First render of a new instance, then its mount effect.
Mount ==
    /\ ~mounted
    /\ mountId < MaxMounts
    /\ mounted' = TRUE
    /\ mountId' = mountId + 1
    /\ predictions' = Null
    /\ selectedLanguage' = "en"
    /\ charts' = Memo(<<>>, Null, Null)
    /\ timers' = SetTimeout(timers, mountId + 1)
    /\ setCalls' = 0
    /\ langEvents' = 0
    /\ UNCHANGED <<lateSets, lastChosen, lastArg, renders>>
    /\ UNCHANGED <<setupVars, cropsVars>>

\* The instance is removed: the effect cleanup runs and its state is gone.
Unmount ==
    /\ mounted
    /\ mounted' = FALSE
    /\ timers' = ClearTimeout(timers, mountId)
    /\ predictions' = Null
    /\ selectedLanguage' = "en"
    /\ charts' = <<>>
    /\ UNCHANGED <<mountId, setCalls, lateSets, lastChosen, lastArg,
                   langEvents, renders>>
    /\ UNCHANGED <<setupVars, cropsVars>>

\* The 400 ms timer of instance `owner` fires: setPredictions({...}), then the
\* re-render it causes.  React drops a state update of an unmounted instance.
TimerFire(owner) ==
    /\ owner \in timers
    /\ IF mounted /\ owner = mountId
       THEN /\ setCalls < MaxSets
            /\ predictions' = <<PlaceholderPredictions>>
            /\ setCalls' = setCalls + 1
            /\ charts' = Memo(charts, predictions, predictions')
            /\ timers' = EffectsAfterRender(timers \ {owner})
            /\ UNCHANGED lateSets
       ELSE /\ lateSets' = lateSets + 1
            /\ timers' = timers \ {owner}
            /\ UNCHANGED <<predictions, setCalls, charts>>
    /\ UNCHANGED <<mounted, mountId, selectedLanguage, lastChosen, lastArg,
                   langEvents, renders>>
    /\ UNCHANGED <<setupVars, cropsVars>>

TimerFires == \E owner \in timers : TimerFire(owner)

\* The user picks option l of the select (a change event needs a value other
\* than the one shown); the handler calls setSelectedLanguage and the
\* component re-renders.
ChangeLanguage(l) ==
    /\ mounted
    /\ langEvents < MaxLangEvents
    /\ l # selectedLanguage
    /\ lastChosen' = l
    /\ lastArg' = OnChangeArg(selectedLanguage, l)
    /\ selectedLanguage' = lastArg'
    /\ langEvents' = langEvents + 1
    /\ charts' = Memo(charts, predictions, predictions)
    /\ timers' = EffectsAfterRender(timers)
    /\ UNCHANGED <<mounted, mountId, predictions, setCalls, lateSets, renders>>
    /\ UNCHANGED <<setupVars, cropsVars>>

\* A re-render with unchanged state.
Rerender ==
    /\ mounted
    /\ renders < MaxRenders
    /\ renders' = renders + 1
    /\ charts' = Memo(charts, predictions, predictions)
    /\ timers' = EffectsAfterRender(timers)
    /\ UNCHANGED <<mounted, mountId, predictions, selectedLanguage, setCalls,
                   lateSets, lastChosen, lastArg, langEvents>>
    /\ UNCHANGED <<setupVars, cropsVars>>

DashInit == SetupIdle /\ DashIdle /\ CropsIdle

DashNext ==
    \/ Mount
    \/ Unmount
    \/ TimerFires
    \/ \E l \in Languages : ChangeLanguage(l)
    \/ Rerender

DashSpec == DashInit /\ [][DashNext]_vars

\* The browser runs a pending timer callback once its delay has elapsed.
DashFairSpec == DashSpec /\ WF_vars(TimerFires)

(***************************************************************************)
(*                         DASHBOARD: CLAIMS                               *)
(***************************************************************************)

\* C1: when the component unmounts before the 400 ms callback has fired, the
\* callback is cancelled: no timer of an unmounted instance stays pending and
\* setPredictions never runs after the unmount of the mount that scheduled it.
C1_CancelledOnUnmount ==
    /\ lateSets = 0
    /\ \A owner \in timers : mounted /\ owner = mountId

\* The second instance was unmounted before its timer fired (it received no
\* setPredictions call) and no callback is left pending.
C1_Witness ==
    /\ ~mounted
    /\ mountId = 2
    /\ setCalls = 0
    /\ timers = {}

\* C2: for a mount that stays mounted the placeholder assignment eventually
\* happens (the timer fires), happens at most once whatever re-renders and
\* language changes occur, and once assigned the predictions record keeps its
\* value for the rest of the mount.
C2_AssignedExactlyOnce ==
    /\ [](setCalls <= 1)
    /\ [](mounted => ((predictions # Null) <=> (setCalls = 1)))
    /\ [][(mounted /\ mounted' /\ mountId' = mountId /\ predictions # Null)
             => predictions' = predictions]_vars
    /\ ((mounted /\ predictions = Null) ~> (~mounted \/ predictions # Null))

\* The assignment has happened and the instance went on re-rendering and
\* changing language afterwards.
C2_Witness ==
    /\ mounted
    /\ setCalls = 1
    /\ predictions = <<PlaceholderPredictions>>
    /\ timers = {}
    /\ langEvents >= 2
    /\ renders >= 1

\* C5: the selected language is always one of 'en', 'hi', 'or', 'en' before
\* any selection; every change event calls onLanguageChange with the newly
\* chosen code, not the one selected before, and the selector then shows it.
C5_LanguageSelector ==
    /\ [](selectedLanguage \in Languages)
    /\ []((mounted /\ langEvents = 0) => selectedLanguage = "en")
    /\ []((mounted /\ langEvents > 0) => selectedLanguage = lastChosen)
    /\ [][langEvents' = langEvents + 1
             => /\ lastArg' = lastChosen'
                /\ lastArg' # selectedLanguage
                /\ selectedLanguage' = lastChosen']_vars

\* Several selections were made, the last one being 'or' after 'hi'.
C5_Witness ==
    /\ mounted
    /\ langEvents = 3
    /\ selectedLanguage = "or"
    /\ lastArg = "or"

ChartLengthsMatch(c) ==
    /\ Len(c.line.labels) = 7 /\ Len(c.line.data) = 7
    /\ Len(c.bar.labels) = 4 /\ Len(c.bar.data) = 4
    /\ Len(c.radar.labels) = 6 /\ Len(c.radar.data) = 6

\* C8: in every Dashboard state each chart's dataset is as long as its label
\* list (7 days, 4 crops, 6 risk factors); while predictions is null the
\* charts show the fallback arrays, once it is set they show its arrays.
C8_ChartData ==
    mounted =>
        /\ charts # <<>>
        /\ ChartLengthsMatch(charts[1])
        /\ predictions = Null =>
              /\ charts[1].line.data = FallbackTrend
              /\ charts[1].bar.data = FallbackConfidence
              /\ charts[1].radar.data = FallbackRisks
        /\ predictions # Null =>
              /\ charts[1].line.data = predictions[1].trend
              /\ charts[1].bar.data = predictions[1].confidence
              /\ charts[1].radar.data = predictions[1].risks

\* The timer has fired and the charts show the placeholder record.
C8_Witness ==
    /\ mounted
    /\ predictions # Null
    /\ charts # <<>>
    /\ charts[1].line.data = <<320, 331, 335, 341, 346, 350, 358>>
    /\ charts[1].line.data # FallbackTrend

(***************************************************************************)
(*                           INSTANCED CROPS                               *)
(***************************************************************************)

RandRes == 5      \* a generator returns k / RandRes, k in 0..RandRes-1
ScoreRes == 2     \* predictionScore is a multiple of 1 / ScoreRes
MaxCount == 2     \* largest requested crop count explored
MaxFrames == 3    \* frames explored

\* predictionScore values: below 0, 0, inside (0, 1), 1, above 1
Scores == (-1)..(ScoreRes + 1)

Min(a, b) == IF a <= b THEN a ELSE b
Max(a, b) == IF a >= b THEN a ELSE b

\* A pseudo-random generator is a stream fixed by its state: output number n
\* (from 0) of a generator in state st, as a numerator over RandRes, so every
\* output lies in [0, 1).
RngDraw(st, n) == (st + n) % RandRes

\* `new Math.seedrandom` (no argument list) is the condition of the ternary:
\* it constructs when the library is loaded and throws a TypeError
\* ("Math.seedrandom is not a constructor") when Math.seedrandom is undefined.
NewSeedrandom(present) == IF present THEN "object" ELSE "TypeError"

\* const rng = new Math.seedrandom ? new Math.seedrandom('krishi') : null
\* An object is truthy, so the null branch is never taken.
MakeRng(present) ==
    LET probe == NewSeedrandom(present) IN
    IF probe = "TypeError" THEN "TypeError"
    ELSE IF probe = "object" THEN "seeded"
    ELSE "null"

\* Draw n of the render: rng ? rng() : Math.random()
Draw(rng, n) ==
    IF rng = "seeded" THEN RngDraw(seedState, n) ELSE RngDraw(randomState, n)

\* The useMemo body: one record per instance, four draws each, in the order
\* rx, rz, rh, r.  Units: x, z over RandRes; h over 10 * RandRes; r in
\* RandRes-ths of a full turn (2 * PI).
GenSeeds(c, rng) ==
    [i \in 1..c |->
        LET base == 4 * (i - 1) IN
        [ x |-> Draw(rng, base) * 8 - 4 * RandRes,
          z |-> Draw(rng, base + 1) * 8 - 4 * RandRes,
          h |-> 6 * RandRes + Draw(rng, base + 2) * 18,
          r |-> Draw(rng, base + 3) ]]

\* Math.random advances by the draws taken from it.
RandomStateAfter(c, rng) ==
    IF rng = "seeded" THEN randomState ELSE (randomState + 4 * c) % RandRes

\* useMemo(..., [count])
SeedsDepsChanged(prevCount, nextCount) == prevCount # nextCount

\* a clamp that lets the score through
ClampNone(v, lo, hi) == v

\* THREE.MathUtils.clamp(value, min, max) = Math.max(min, Math.min(max, value))
Clamp(v, lo, hi) == Max(lo, Min(hi, v))

\* THREE.MathUtils.lerp(x, y, t) = (1 - t) * x + t * y, with t = g / ScoreRes:
\* the result is a numerator over ScoreRes times the unit of a and b.
Lerp(a, b, g) == (ScoreRes - g) * a + g * b

\* 0.3 over the unit of h
MinHeight == 3 * RandRes

\* lerp(0.3, s.h, clamp(predictionScore, 0, 1)), over 10 * RandRes * ScoreRes
Height(sd, score) == Lerp(MinHeight, sd.h, Clamp(score, 0, ScoreRes))

\* a frame callback that stores the grown height back into the seed
SeedsGrownByFrame(sds, score) ==
    [i \in DOMAIN sds |-> [sds[i] EXCEPT !.h = Height(sds[i], score) + 1]]

\* The frame callback reads each seed record and assigns to none of them.
SeedsAfterFrame(sds, score) == sds

\* The matrix of instance i: position (x, height / 2, z), rotation about y of
\* s.r + sin(t * 1.2 + s.r) * 0.04 (kept as the pair of its inputs), scale
\* (0.06, height, 0.06).  y2 is twice the y coordinate.
InstanceMatrix(sd, score, t) ==
    LET height == Height(sd, score) IN
    [ x |-> sd.x, y2 |-> height, z |-> sd.z,
      rot |-> <<sd.r, t>>, scaleY |-> height ]

\* First render of InstancedCrops with props (c, sc).  A render that throws
\* leaves no component: no seeds, no mesh.
CropsMount(c, sc) ==
    /\ cropsStatus = "unmounted"
    /\ count' = c
    /\ predictionScore' = sc
    /\ LET rng == MakeRng(seedrandomPresent) IN
       IF rng = "TypeError"
       THEN /\ cropsStatus' = "crashed"
            /\ seeds' = <<>>
            /\ meshCount' = -1
            /\ UNCHANGED randomState
       ELSE /\ cropsStatus' = "mounted"
            /\ seeds' = GenSeeds(c, rng)
            /\ meshCount' = c
            /\ randomState' = RandomStateAfter(c, rng)
    /\ matrices' = <<>>
    /\ UNCHANGED <<seedrandomPresent, seedState, frameScore, frames>>
    /\ UNCHANGED <<setupVars, dashVars>>

\* Re-render with a new count: the memo recomputes and the instancedMesh is
\* rebuilt from its new args.
SetCount(c) ==
    /\ cropsStatus = "mounted"
    /\ c # count
    /\ count' = c
    /\ LET rng == MakeRng(seedrandomPresent) IN
       IF SeedsDepsChanged(count, c)
       THEN /\ seeds' = GenSeeds(c, rng)
            /\ randomState' = RandomStateAfter(c, rng)
       ELSE UNCHANGED <<seeds, randomState>>
    /\ meshCount' = c
    /\ matrices' = <<>>
    /\ UNCHANGED <<seedrandomPresent, seedState, cropsStatus, predictionScore,
                   frameScore, frames>>
    /\ UNCHANGED <<setupVars, dashVars>>

\* Re-render with a new predictionScore: count is the same, the memo is kept.
SetScore(sc) ==
    /\ cropsStatus = "mounted"
    /\ sc # predictionScore
    /\ predictionScore' = sc
    /\ LET rng == MakeRng(seedrandomPresent) IN
       IF SeedsDepsChanged(count, count)
       THEN /\ seeds' = GenSeeds(count, rng)
            /\ randomState' = RandomStateAfter(count, rng)
       ELSE UNCHANGED <<seeds, randomState>>
    /\ UNCHANGED <<seedrandomPresent, seedState, cropsStatus, count, meshCount,
                   matrices, frameScore, frames>>
    /\ UNCHANGED <<setupVars, dashVars>>

\* useFrame callback: one setMatrixAt per seed, into the mesh's buffer of
\* meshCount matrices.
Frame ==
    /\ cropsStatus = "mounted"
    /\ frames < MaxFrames
    /\ frames' = frames + 1
    /\ frameScore' = predictionScore
    /\ matrices' = [i \in 1..Min(Len(seeds), meshCount) |->
                        InstanceMatrix(seeds[i], predictionScore, frames')]
    /\ seeds' = SeedsAfterFrame(seeds, predictionScore)
    /\ UNCHANGED <<seedrandomPresent, seedState, randomState, cropsStatus,
                   count, predictionScore, meshCount>>
    /\ UNCHANGED <<setupVars, dashVars>>

\* The page either loaded the seedrandom library or did not; the generators
\* start in any state.
CropsInit ==
    /\ SetupIdle
    /\ DashIdle
    /\ seedrandomPresent \in BOOLEAN
    /\ seedState \in 0..(RandRes - 1)
    /\ randomState \in 0..(RandRes - 1)
    /\ cropsStatus = "unmounted"
    /\ count = 0
    /\ predictionScore = 0
    /\ seeds = <<>>
    /\ meshCount = -1
    /\ matrices = <<>>
    /\ frameScore = 0
    /\ frames = 0

CropsNext ==
    \/ \E c \in 0..MaxCount, sc \in Scores : CropsMount(c, sc)
    \/ \E c \in 0..MaxCount : SetCount(c)
    \/ \E sc \in Scores : SetScore(sc)
    \/ Frame

CropsSpec == CropsInit /\ [][CropsNext]_vars

(***************************************************************************)
(*                      INSTANCED CROPS: CLAIMS                            *)
(***************************************************************************)

\* C6: for every requested count, with Math.seedrandom present or absent,
\* seed generation completes with exactly count records, the instanced mesh
\* has that instance count, and a frame writes one matrix per instance.
C6_InstanceCount ==
    cropsStatus # "unmounted" =>
        /\ cropsStatus = "mounted"
        /\ Len(seeds) = count
        /\ meshCount = count
        /\ matrices # <<>> => DOMAIN matrices = 1..count

\* C7: for every instance and frame the height lies between the minimum 0.3
\* and the instance's maximum h, h in [0.6, 2.4), for any predictionScore: it
\* is the minimum at score <= 0, h at score >= 1, and non-decreasing in the
\* score.
C7_HeightBounds ==
    cropsStatus = "mounted" =>
        /\ \A i \in DOMAIN seeds :
              /\ 6 * RandRes <= seeds[i].h /\ seeds[i].h < 24 * RandRes
              /\ \A sc \in Scores :
                    LET ht == Height(seeds[i], sc) IN
                    /\ MinHeight * ScoreRes <= ht
                    /\ ht <= seeds[i].h * ScoreRes
                    /\ sc <= 0 => ht = MinHeight * ScoreRes
                    /\ sc >= ScoreRes => ht = seeds[i].h * ScoreRes
                    /\ \A sc2 \in Scores :
                          sc <= sc2 => ht <= Height(seeds[i], sc2)
        /\ \A i \in DOMAIN matrices :
              /\ i \in DOMAIN seeds
              /\ matrices[i].scaleY = Height(seeds[i], frameScore)
              /\ MinHeight * ScoreRes <= matrices[i].scaleY
              /\ matrices[i].scaleY <= seeds[i].h * ScoreRes

\* A frame ran with a score above 1 and wrote the full height h, and the
\* instances differ in h.
C7_Witness ==
    /\ cropsStatus = "mounted"
    /\ Len(matrices) = 2
    /\ frameScore > ScoreRes
    /\ matrices[1].scaleY = seeds[1].h * ScoreRes
    /\ seeds[1].h # seeds[2].h

\* C9: the seed records are left unchanged by every frame and by changes of
\* predictionScore; a frame writes only the instance matrices; the seeds are
\* regenerated only when the requested count changes.
C9_SeedsStable ==
    /\ [][(cropsStatus = "mounted" /\ count' = count) => seeds' = seeds]_vars
    /\ [][frames' # frames
             => /\ seeds' = seeds
                /\ count' = count
                /\ meshCount' = meshCount
                /\ predictionScore' = predictionScore]_vars
    /\ [](cropsStatus = "mounted" => seeds = GenSeeds(count, "seeded"))

\* Frames ran before and after a change of score, over two distinct seeds.
C9_Witness ==
    /\ cropsStatus = "mounted"
    /\ frames >= 2
    /\ Len(seeds) = 2
    /\ seeds[1] # seeds[2]
    /\ matrices # <<>>
    /\ matrices[1].scaleY # MinHeight * ScoreRes
    /\ frameScore # predictionScore

====
